---- MODULE Spec2Model ----
(***************************************************************************)
(* Steenbok safe URL fetcher: the validate -> allowlist -> resolve ->      *)
(* rate-limit -> fetch (manual redirects, bounded body) -> extract         *)
(* pipeline of src/fetch.py with the allowlist matcher of src/allowlist.py *)
(* and the process-wide rate limiter.                                      *)
(*                                                                         *)
(* Strings that the code inspects character by character (schemes, hosts,  *)
(* allowlist patterns) are sequences of one-character strings.  Time is    *)
(* counted in whole seconds of time.monotonic().                           *)
(***************************************************************************)
EXTENDS Integers, Sequences, FiniteSets, TLC

\* ------------------------------------------------------------------ bounds
MaxClock == 6          \* time.monotonic() is followed up to this reading
MaxStart == 1          \* the clock reading at process start is in 0..MaxStart
MaxPermits == 2        \* calls let past the rate limiter in one behaviour
MaxChunks == 2         \* chunks streamed by one response body
NumThreads == 2        \* concurrent direct callers of _rate_limit
MaxCalls == 3          \* direct calls of _rate_limit in one behaviour

\* ------------------------------------------------- constants of src/fetch.py
MAX_RESPONSE_BYTES == 5242880
MAX_PDF_BYTES == 2097152
MAX_REDIRECTS == 3
DRAIN_INTERVAL_SEC == 5
MAX_URL_LEN == 2048

\* ---------------------------------------------------------------- strings
S_empty == <<>>
S_file == <<"f", "i", "l", "e">>
S_data == <<"d", "a", "t", "a">>
S_javascript == <<"j", "a", "v", "a", "s", "c", "r", "i", "p", "t">>
S_vbscript == <<"v", "b", "s", "c", "r", "i", "p", "t">>
S_ftp == <<"f", "t", "p">>
S_http == <<"h", "t", "t", "p">>
S_https == <<"h", "t", "t", "p", "s">>
S_FILE == <<"F", "I", "L", "E">>
S_gopher == <<"g", "o", "p", "h", "e", "r">>
S_localhost == <<"l", "o", "c", "a", "l", "h", "o", "s", "t">>
S_localhost_localdomain == <<"l", "o", "c", "a", "l", "h", "o", "s", "t", ".", "l", "o", "c", "a", "l", "d", "o", "m", "a", "i", "n">>
S_LOCALHOST_80 == <<"L", "O", "C", "A", "L", "H", "O", "S", "T", ":", "8", "0">>
S_arxiv_org == <<"a", "r", "x", "i", "v", ".", "o", "r", "g">>
S_pubmed == <<"p", "u", "b", "m", "e", "d", ".", "n", "c", "b", "i", ".", "n", "l", "m", ".", "n", "i", "h", ".", "g", "o", "v">>
S_w_ncbi == <<"*", ".", "n", "c", "b", "i", ".", "n", "l", "m", ".", "n", "i", "h", ".", "g", "o", "v">>
S_jstor_org == <<"j", "s", "t", "o", "r", ".", "o", "r", "g">>
S_doi_org == <<"d", "o", "i", ".", "o", "r", "g">>
S_w_edu == <<"*", ".", "e", "d", "u">>
S_w_ac_uk == <<"*", ".", "a", "c", ".", "u", "k">>
S_wikipedia_org == <<"w", "i", "k", "i", "p", "e", "d", "i", "a", ".", "o", "r", "g">>
S_w_wikipedia_org == <<"*", ".", "w", "i", "k", "i", "p", "e", "d", "i", "a", ".", "o", "r", "g">>
S_en_wikipedia_org == <<"e", "n", ".", "w", "i", "k", "i", "p", "e", "d", "i", "a", ".", "o", "r", "g">>
S_www_google_com == <<"w", "w", "w", ".", "g", "o", "o", "g", "l", "e", ".", "c", "o", "m">>
S_scholar_google_com == <<"s", "c", "h", "o", "l", "a", "r", ".", "g", "o", "o", "g", "l", "e", ".", "c", "o", "m">>
S_books_google_com == <<"b", "o", "o", "k", "s", ".", "g", "o", "o", "g", "l", "e", ".", "c", "o", "m">>
S_patents_google_com == <<"p", "a", "t", "e", "n", "t", "s", ".", "g", "o", "o", "g", "l", "e", ".", "c", "o", "m">>
S_not_arxiv_org == <<"!", "a", "r", "x", "i", "v", ".", "o", "r", "g">>
S_example_com == <<"e", "x", "a", "m", "p", "l", "e", ".", "c", "o", "m">>
S_ip_127_0_0_1 == <<"1", "2", "7", ".", "0", ".", "0", ".", "1">>
S_ip_10_0_0_1 == <<"1", "0", ".", "0", ".", "0", ".", "1">>
S_ip_8_8_8_8 == <<"8", ".", "8", ".", "8", ".", "8">>
S_ip6_loop == <<":", ":", "1">>
S_ip6_loop_br == <<"[", ":", ":", "1", "]">>
S_ip6_open == <<"[", ":", ":", "1">>
S_ip_169_254_169_254 == <<"1", "6", "9", ".", "2", "5", "4", ".", "1", "6", "9", ".", "2", "5", "4">>
S_ip_0_0_0_0 == <<"0", ".", "0", ".", "0", ".", "0">>
S_ip_240_0_0_1 == <<"2", "4", "0", ".", "0", ".", "0", ".", "1">>
S_star == <<"*">>
S_comment == <<"#", " ", "l", "o", "c", "a", "l", " ", "a", "d", "d", "i", "t", "i", "o", "n", "s">>
S_sp_example_com == <<" ", "e", "x", "a", "m", "p", "l", "e", ".", "c", "o", "m", " ">>

\* ------------------------------------------------------ string operations
UpperChars == <<"A","B","C","D","E","F","G","H","I","J","K","L","M",
                "N","O","P","Q","R","S","T","U","V","W","X","Y","Z">>
LowerChars == <<"a","b","c","d","e","f","g","h","i","j","k","l","m",
                "n","o","p","q","r","s","t","u","v","w","x","y","z">>

UpperToLower ==
    [c \in {UpperChars[i] : i \in DOMAIN UpperChars} |->
        LowerChars[CHOOSE i \in DOMAIN UpperChars : UpperChars[i] = c]]

\* str.lower() on one character
LowerChar(c) == IF c \in DOMAIN UpperToLower THEN UpperToLower[c] ELSE c

\* str.lower()
Lower(s) == [i \in DOMAIN s |-> LowerChar(s[i])]

RECURSIVE LStrip(_)
LStrip(s) == IF s # <<>> /\ Head(s) = " " THEN LStrip(Tail(s)) ELSE s

RECURSIVE RStrip(_)
RStrip(s) ==
    IF s # <<>> /\ s[Len(s)] = " " THEN RStrip(SubSeq(s, 1, Len(s) - 1)) ELSE s

\* str.strip()
Strip(s) == RStrip(LStrip(s))

\* "c in s"
Contains(s, c) == \E i \in DOMAIN s : s[i] = c

\* s.split(c)[0]: the text before the first c (all of s when c is absent)
BeforeFirst(s, c) ==
    IF Contains(s, c)
    THEN SubSeq(s, 1, (CHOOSE i \in DOMAIN s :
                          s[i] = c /\ \A j \in 1..(i - 1) : s[j] # c) - 1)
    ELSE s

\* s.split(c): the pieces of s between occurrences of c
RECURSIVE Split(_, _)
Split(s, c) ==
    IF Contains(s, c)
    THEN <<BeforeFirst(s, c)>>
         \o Split(SubSeq(s, Len(BeforeFirst(s, c)) + 2, Len(s)), c)
    ELSE <<s>>

\* fnmatch.fnmatch(name, pat) on POSIX: '*' matches any run of characters,
\* '?' any one character, every other character itself
RECURSIVE fnmatch(_, _)
fnmatch(name, pat) ==
    IF pat = <<>> THEN name = <<>>
    ELSE IF Head(pat) = "*"
         THEN \/ fnmatch(name, Tail(pat))
              \/ name # <<>> /\ fnmatch(Tail(name), pat)
    ELSE /\ name # <<>>
         /\ (Head(pat) = "?" \/ Head(pat) = Head(name))
         /\ fnmatch(Tail(name), Tail(pat))

\* ------------------------------------------------------------ URL parsing
\* A URL is the record [scheme, netloc, len]: its scheme and network location
\* as written and len(url).  urlparse raises ValueError ("Invalid IPv6 URL")
\* when the brackets of the network location do not pair up.
UrlParseFails(url) == Contains(url.netloc, "[") # Contains(url.netloc, "]")

\* urlparse(url).scheme, lowercased
UrlScheme(url) == Lower(url.scheme)

\* urlparse(url).hostname or "": the bracketed part of the network location,
\* or the text before the port, lowercased
UrlHostname(url) ==
    IF Contains(url.netloc, "[")
    THEN Lower(BeforeFirst(
             SubSeq(url.netloc, Len(BeforeFirst(url.netloc, "[")) + 2,
                    Len(url.netloc)), "]"))
    ELSE Lower(BeforeFirst(url.netloc, ":"))

\* ------------------------------------------------------- src/allowlist.py
\* _cached_domains is None, or the list loaded by _load_domains
NoCache == [loaded |-> FALSE, domains |-> <<>>]
Cached(domains) == [loaded |-> TRUE, domains |-> domains]

\* ~/.steenbok/allowlist.txt: absent, or its lines
NoFile == [exists |-> FALSE, lines |-> <<>>]
File(lines) == [exists |-> TRUE, lines |-> lines]

DEFAULT_ALLOWED ==
    << S_arxiv_org, S_pubmed, S_w_ncbi, S_jstor_org, S_doi_org, S_w_edu,
       S_w_ac_uk, S_wikipedia_org, S_w_wikipedia_org, S_en_wikipedia_org,
       S_www_google_com, S_scholar_google_com, S_books_google_com,
       S_patents_google_com >>

\* the lines of the override file that _load_domains keeps, stripped
FileDomains(file) ==
    IF ~file.exists THEN <<>>
    ELSE SelectSeq([i \in DOMAIN file.lines |-> Strip(file.lines[i])],
                   LAMBDA line : line # <<>> /\ Head(line) # "#")

\* the comma-separated items of the environment variable, stripped
EnvDomains(extra) ==
    IF extra = <<>> THEN <<>>
    ELSE SelectSeq([i \in DOMAIN Split(extra, ",") |-> Strip(Split(extra, ",")[i])],
                   LAMBDA d : d # <<>>)

\* _load_domains() in which an existing override file replaces the defaults
LoadDomains_FileReplaces(file, extra) ==
    (IF file.exists THEN FileDomains(file) ELSE DEFAULT_ALLOWED)
        \o EnvDomains(extra)

\* _load_domains(): default + file (if it exists) + environment
LoadDomains(file, extra) == DEFAULT_ALLOWED \o FileDomains(file) \o EnvDomains(extra)

\* _normalize_host(url): None is the empty string here (both are falsy)
NormalizeHost(url) ==
    IF UrlParseFails(url) THEN <<>>
    ELSE LET host == IF UrlHostname(url) # <<>> THEN UrlHostname(url)
                     ELSE Lower(url.netloc)
         IN  IF Contains(host, ":") THEN BeforeFirst(host, ":") ELSE host

HostMatchesPattern(host, pattern) == fnmatch(host, pattern)

\* _get_domains() as a value: the cached list, loaded on first use
GetDomains(cached, file, extra) ==
    IF ~cached.loaded THEN LoadDomains(file, extra) ELSE cached.domains

\* is_allowed ending in "return True"
IsAllowed_DefaultTrue(url, domains) ==
    /\ NormalizeHost(url) # <<>>
    /\ UrlScheme(url) \in {S_http, S_https}

\* is_allowed(url) over the pattern list `domains`
IsAllowed(url, domains) ==
    /\ NormalizeHost(url) # <<>>
    /\ UrlScheme(url) \in {S_http, S_https}
    /\ \E i \in DOMAIN domains : HostMatchesPattern(NormalizeHost(url), domains[i])

\* ----------------------------------------------------------- src/fetch.py
BLOCKED_SCHEMES == {S_file, S_data, S_javascript, S_vbscript, S_ftp}
BLOCKED_HOSTNAMES == {S_localhost, S_localhost_localdomain}

\* ipaddress.ip_address on the literals of the model: the properties the
\* classifier reads, per literal
IpProps ==
    { [ip |-> S_ip_127_0_0_1, props |-> {"private", "loopback"}],
      [ip |-> S_ip6_loop, props |-> {"private", "loopback", "reserved"}],
      [ip |-> S_ip_10_0_0_1, props |-> {"private"}],
      [ip |-> S_ip_169_254_169_254, props |-> {"private", "link_local"}],
      [ip |-> S_ip_0_0_0_0, props |-> {"private", "unspecified"}],
      [ip |-> S_ip_240_0_0_1, props |-> {"private", "reserved"}],
      [ip |-> S_ip_8_8_8_8, props |-> {}] }

IsIpLiteral(s) == \E e \in IpProps : e.ip = s

\* _is_blocked_ip(ip_str)
IsBlockedIp(ip_str) ==
    \E e \in IpProps :
        /\ e.ip = Strip(ip_str)
        /\ e.props \cap {"private", "loopback", "link_local", "reserved",
                         "unspecified"} # {}

\* _is_blocked_host without the literal-IP test
IsBlockedHost_NamesOnly(host) ==
    host = <<>> \/ Strip(Lower(host)) \in BLOCKED_HOSTNAMES

\* _is_blocked_host(host)
IsBlockedHost(host) ==
    IF host = <<>> THEN TRUE
    ELSE LET lowered == Strip(Lower(host))
             host_lower == IF Len(lowered) >= 1 /\ Head(lowered) = "["
                              /\ lowered[Len(lowered)] = "]"
                           THEN SubSeq(lowered, 2, Len(lowered) - 1)
                           ELSE lowered
         IN  host_lower \in BLOCKED_HOSTNAMES \/ IsBlockedIp(host_lower)

Ok == [kind |-> "ok", msg |-> ""]
Err(kind, msg) == [kind |-> kind, msg |-> msg]

\* _validate_url with the length test moved to the front
ValidateUrl_LengthFirst(url, allow) ==
    IF UrlParseFails(url) THEN [kind |-> "URLBlockedError", msg |-> "Invalid URL"]
    ELSE IF url.len > MAX_URL_LEN
         THEN [kind |-> "URLBlockedError", msg |-> "URL too long"]
    ELSE IF UrlScheme(url) \in BLOCKED_SCHEMES
         THEN [kind |-> "URLBlockedError", msg |-> "Blocked scheme"]
    ELSE IF UrlScheme(url) \notin {S_http, S_https}
         THEN [kind |-> "URLBlockedError", msg |-> "Unsupported scheme"]
    ELSE IF UrlScheme(url) = S_http /\ ~allow
         THEN [kind |-> "URLBlockedError", msg |-> "HTTP not allowed"]
    ELSE IF IsBlockedHost(UrlHostname(url))
         THEN [kind |-> "URLBlockedError", msg |-> "Blocked host"]
    ELSE [kind |-> "ok", msg |-> ""]

\* _validate_url(url) with STEENBOK_ALLOW_HTTP = "1" iff allow: Ok, or the
\* URLBlockedError raised
ValidateUrl(url, allow) ==
    IF UrlParseFails(url) THEN Err("URLBlockedError", "Invalid URL")
    ELSE IF UrlScheme(url) \in BLOCKED_SCHEMES
         THEN Err("URLBlockedError", "Blocked scheme")
    ELSE IF UrlScheme(url) \notin {S_http, S_https}
         THEN Err("URLBlockedError", "Unsupported scheme")
    ELSE IF UrlScheme(url) = S_http /\ ~allow
         THEN Err("URLBlockedError", "HTTP not allowed")
    ELSE IF IsBlockedHost(UrlHostname(url))
         THEN Err("URLBlockedError", "Blocked host")
    ELSE IF url.len > MAX_URL_LEN
         THEN Err("URLBlockedError", "URL too long")
    ELSE Ok

\* socket.getaddrinfo(host): the addresses returned, or socket.gaierror
GaiError == [ok |-> FALSE, addrs |-> <<>>]
Addrs(addrs) == [ok |-> TRUE, addrs |-> addrs]

\* the loop of lines 144-153 looking at the first address only
AnyBlocked_FirstOnly(addrs) == addrs # <<>> /\ IsBlockedIp(Head(addrs))

\* whether the loop of lines 144-153 meets a blocked address
RECURSIVE AnyBlocked(_)
AnyBlocked(addrs) ==
    IF addrs = <<>> THEN FALSE
    ELSE IsBlockedIp(Head(addrs)) \/ AnyBlocked(Tail(addrs))

\* _resolve_and_validate_host(host) when getaddrinfo answers `answer`
ResolveAndValidateHost(host, answer) ==
    IF host = <<>> THEN Err("URLBlockedError", "Host has no hostname")
    ELSE IF ~answer.ok THEN Err("URLBlockedError", "Host unreachable")
    ELSE IF AnyBlocked(answer.addrs) THEN Err("URLBlockedError", "Resolves to blocked IP")
    ELSE IF IsBlockedHost(host) THEN Err("URLBlockedError", "Blocked host")
    ELSE Ok

\* _validate_redirect_target(redirect_url, current_url) when getaddrinfo
\* answers `answer` and the allowlist is `domains`; urlparse is not guarded
ValidateRedirectTarget(redirect_url, answer, domains) ==
    IF UrlParseFails(redirect_url) THEN Err("ValueError", "Invalid IPv6 URL")
    ELSE IF UrlHostname(redirect_url) = <<>>
         THEN Err("URLBlockedError", "Redirect target has no host")
    ELSE IF ResolveAndValidateHost(UrlHostname(redirect_url), answer) # Ok
         THEN ResolveAndValidateHost(UrlHostname(redirect_url), answer)
    ELSE IF ~IsAllowed(redirect_url, domains)
         THEN Err("AllowlistError", "Redirect target not on allowlist")
    ELSE Ok

\* the streaming loop of _do_fetch: len(content) after reading `chunks`
\* (chunk sizes) on top of `have` bytes
RECURSIVE StreamBody(_, _)
StreamBody(have, chunks) ==
    IF chunks = <<>> THEN have
    ELSE IF have + Head(chunks) > MAX_RESPONSE_BYTES THEN have + Head(chunks)
    ELSE StreamBody(have + Head(chunks), Tail(chunks))

\* ------------------------------------------------------ inputs of the model
Url(scheme, netloc, len) == [scheme |-> scheme, netloc |-> netloc, len |-> len]
NoUrl == Url(<<>>, <<>>, 0)

U_arxiv == Url(S_https, S_arxiv_org, 24)
U_example == Url(S_https, S_example_com, 24)
U_http_arxiv == Url(S_http, S_arxiv_org, 24)
U_long_arxiv == Url(S_https, S_arxiv_org, 2049)
U_localhost == Url(S_https, S_localhost, 24)
U_open_bracket == Url(S_https, S_ip6_open, 24)
U_no_host == Url(S_https, S_empty, 24)
U_public_ip == Url(S_https, S_ip_8_8_8_8, 24)
U_private_ip == Url(S_https, S_ip_10_0_0_1, 24)

\* the URLs callers pass to fetch
Urls ==
    { U_arxiv, U_example, U_http_arxiv, U_long_arxiv, U_localhost,
      U_open_bracket, U_no_host, U_public_ip,
      Url(S_file, S_empty, 24), Url(S_FILE, S_arxiv_org, 2049),
      Url(S_ftp, S_localhost, 24), Url(S_data, S_empty, 24),
      Url(S_javascript, S_empty, 24), Url(S_vbscript, S_ip_127_0_0_1, 24),
      Url(S_gopher, S_arxiv_org, 24),
      Url(S_https, S_LOCALHOST_80, 24), Url(S_http, S_localhost, 24),
      Url(S_https, S_localhost_localdomain, 2049),
      Url(S_https, S_ip_127_0_0_1, 24), Url(S_https, S_ip6_loop_br, 24),
      Url(S_http, S_ip_10_0_0_1, 24), Url(S_https, S_ip_169_254_169_254, 24),
      Url(S_https, S_ip_0_0_0_0, 24), Url(S_https, S_ip_240_0_0_1, 24) }

\* the Location header of a redirect response: absent, an absolute URL, or a
\* path on the same origin
NoLocation == [kind |-> "absent", url |-> NoUrl]
Absolute(url) == [kind |-> "absolute", url |-> url]
Relative(len) == [kind |-> "relative", url |-> Url(<<>>, <<>>, len)]

Locations ==
    { NoLocation, Relative(24) }
    \cup { Absolute(u) : u \in { U_arxiv, U_example, U_http_arxiv, U_long_arxiv,
                                 U_localhost, U_private_ip, U_open_bracket,
                                 U_no_host } }

\* urljoin(str(response.url), location)
UrlJoin(base, location) ==
    IF location.kind = "relative"
    THEN Url(base.scheme, base.netloc, location.url.len)
    ELSE location.url

\* what the resolver may answer for a host name; a literal address resolves
\* to itself
DnsAnswers ==
    { Addrs(<<S_ip_8_8_8_8>>), Addrs(<<S_ip_10_0_0_1>>),
      Addrs(<<S_ip_8_8_8_8, S_ip_10_0_0_1>>), GaiError }

Resolutions(host) ==
    IF IsIpLiteral(host) THEN {Addrs(<<host>>)} ELSE DnsAnswers

\* the transport's own connection to a host: it resolves the name again and
\* connects to one of the addresses, or fails (httpx.RequestError)
ConnectFailed == [ok |-> FALSE, addr |-> <<>>]
Connected(addr) == [ok |-> TRUE, addr |-> addr]

ConnectOutcomes(host) ==
    {ConnectFailed}
    \cup UNION { { Connected(a.addrs[i]) : i \in DOMAIN a.addrs } :
                    a \in {x \in Resolutions(host) : x.ok} }

\* the chunk sizes response.iter_bytes() may yield
ChunkSizes == {1, MAX_PDF_BYTES, MAX_RESPONSE_BYTES}
ChunkSeqs == UNION { [1..k -> ChunkSizes] : k \in 0..MaxChunks }

\* the lowercased Content-Type header, as the media types it contains
ContentTypes ==
    { {"text/html"}, {"application/pdf"}, {"application/zip"}, {} }

BlockedContentTypes ==
    { "application/msword", "application/vnd.ms-",
      "application/vnd.openxmlformats-officedocument", "application/rtf",
      "application/zip", "application/x-rar", "application/x-7z",
      "image/svg+xml", "application/javascript", "application/x-msdownload" }

\* the override file and STEENBOK_ALLOWED_DOMAINS of the process
Configs ==
    { [file |-> NoFile, env |-> <<>>],
      [file |-> File(<<S_comment, S_star>>), env |-> S_sp_example_com] }

Threads == 1..NumThreads
\* the thread that calls fetch
Caller == CHOOSE t \in Threads : \A s \in Threads : t <= s

NoResult == [kind |-> "none", msg |-> ""]
NoGet == [url |-> NoUrl, connected |-> FALSE, internal |-> FALSE, checks |-> {},
          time |-> -1]
NoCall == [url |-> NoUrl, domains |-> <<>>, result |-> "none"]
NoBody == [present |-> FALSE, ctype |-> {}, len |-> 0, parsed |-> FALSE]
NoTarget == [present |-> FALSE, url |-> NoUrl, resolved |-> FALSE, answer |-> GaiError]

\* ------------------------------------------------------------------ state
VARIABLES
    clock,             \* time.monotonic()
    last_fetch_time,   \* _last_fetch_time
    rate_limit_lock,   \* _rate_limit_lock: the thread holding it, 0 when free
    rl_pc,             \* each thread's position in _rate_limit
    rl_wake,           \* when a thread's time.sleep(sleep_time) is over
    rl_sleeps,         \* the sleeps of a thread's current _rate_limit call
    permits,           \* the readings stored by the calls that returned
    allow_http,        \* STEENBOK_ALLOW_HTTP = "1"
    config,            \* override file and environment variable
    cached_domains,    \* allowlist._cached_domains
    stores,            \* assignments of a loaded list to _cached_domains since
                       \* process start or the latest reset_cache
    al_pc,             \* each thread's position in is_allowed
    al_url,            \* is_allowed's argument
    al_domains,        \* the list a thread loaded in _get_domains
    al_result,         \* what is_allowed returned or raised
    al_fresh,          \* the call began after the latest reset_cache
    last_call,         \* the latest is_allowed call that returned: its URL,
                       \* the list it got from _get_domains (if it returned
                       \* before line 108, the list it would have got) and
                       \* its result
    pc,                \* the position of the fetch call
    url,               \* fetch's argument
    current_url,       \* _do_fetch: current_url
    redirect_count,    \* _do_fetch: redirect_count
    content_type,      \* the final response's Content-Type
    content_len,       \* len(content) returned by _do_fetch
    result,            \* what the call returned or raised
    dns_lookups,       \* getaddrinfo calls made by this call
    rl_calls,          \* _rate_limit calls made by this call
    gets,              \* HTTP GETs issued by this call
    last_get,          \* the latest GET: its URL, the address connected to,
                       \* the clock reading when it was issued
    prev_get_time,     \* when the latest GET of the earlier calls was issued
    cur_checks,        \* the checks current_url went through
    redirects,         \* 3xx responses received by this call
    last_target,       \* the latest redirect target and what it resolved to
    logs,              \* the audit events _LOG.info emitted for this call
    dispatched         \* the body the content-type dispatch of this call got:
                       \* its type, its length, whether fitz.open was called

rl_vars == <<clock, last_fetch_time, rate_limit_lock, rl_pc, rl_wake, rl_sleeps,
            permits>>
env_vars == <<allow_http, config>>
al_vars == <<al_pc, al_url, al_domains, al_result, al_fresh, last_call>>
call_vars == <<pc, url, current_url, redirect_count, content_type, content_len,
               result, dns_lookups, rl_calls, gets, last_get, cur_checks,
               redirects, last_target, logs, dispatched>>
vars == <<rl_vars, env_vars, cached_domains, stores, al_vars, call_vars,
         prev_get_time>>

\* the state after import when the clock reads `start`
Start(start) ==
    /\ clock = start
    /\ last_fetch_time = 0
    /\ rate_limit_lock = 0
    /\ rl_pc = [t \in Threads |-> "idle"]
    /\ rl_wake = [t \in Threads |-> 0]
    /\ rl_sleeps = [t \in Threads |-> 0]
    /\ permits = <<>>
    /\ allow_http \in BOOLEAN
    /\ config \in Configs
    /\ cached_domains = NoCache
    /\ stores = 0
    /\ al_pc = [t \in Threads |-> "idle"]
    /\ al_url = [t \in Threads |-> NoUrl]
    /\ al_domains = [t \in Threads |-> <<>>]
    /\ al_result = [t \in Threads |-> "none"]
    /\ al_fresh = [t \in Threads |-> FALSE]
    /\ last_call = NoCall
    /\ pc = "idle"
    /\ url = NoUrl
    /\ current_url = NoUrl
    /\ redirect_count = 0
    /\ content_type = {}
    /\ content_len = 0
    /\ result = NoResult
    /\ dns_lookups = 0
    /\ rl_calls = 0
    /\ gets = 0
    /\ last_get = NoGet
    /\ prev_get_time = -1
    /\ cur_checks = {}
    /\ redirects = 0
    /\ last_target = NoTarget
    /\ logs = <<>>
    /\ dispatched = NoBody

\* a process whose first clock reading is positive
Init == Start(1)

\* the monotonic clock has no fixed origin: the rate limiter alone is also
\* followed from a reading of 0
InitRL == \E start \in 0..MaxStart : Start(start)

\* ------------------------------------------------------------- rate limiter
\* time passes while a thread sleeps, until the sleep is over
SleepTick ==
    /\ \E t \in Threads : rl_pc[t] = "sleeping" /\ clock < rl_wake[t]
    /\ clock' = clock + 1
    /\ UNCHANGED <<last_fetch_time, rate_limit_lock, rl_pc, rl_wake, rl_sleeps,
                   permits,
                   env_vars, cached_domains, stores, al_vars, call_vars,
                   prev_get_time>>

\* time passes while the call waits for a response of the server
NetTick ==
    /\ clock < MaxClock
    /\ pc = "do_fetch"
    /\ gets > 0
    /\ clock' = clock + 1
    /\ UNCHANGED <<last_fetch_time, rate_limit_lock, rl_pc, rl_wake, rl_sleeps,
                   permits,
                   env_vars, cached_domains, stores, al_vars, call_vars,
                   prev_get_time>>

\* time passes at any moment; it is followed while some thread is about to
\* read the clock or sleeps (a later reading sees every earlier advance)
Tick ==
    /\ clock < MaxClock
    /\ \E t \in Threads : rl_pc[t] \in {"locked", "stamp", "sleeping"}
    /\ clock' = clock + 1
    /\ UNCHANGED <<last_fetch_time, rate_limit_lock, rl_pc, rl_wake, rl_sleeps,
                   permits,
                   env_vars, cached_domains, stores, al_vars, call_vars,
                   prev_get_time>>

\* calls of _rate_limit that have started and not yet returned
InRateLimit == {t \in Threads : rl_pc[t] \notin {"idle", "returned"}}

\* a thread calls _rate_limit() directly
RLCall(t) ==
    /\ rl_pc[t] \in {"idle", "returned"}
    /\ pc = "idle"
    /\ Len(permits) + Cardinality(InRateLimit) < MaxCalls
    /\ rl_pc' = [rl_pc EXCEPT ![t] = "enter"]
    /\ rl_sleeps' = [rl_sleeps EXCEPT ![t] = 0]
    /\ UNCHANGED <<clock, last_fetch_time, rate_limit_lock, rl_wake, permits,
                   env_vars, cached_domains, stores, al_vars, call_vars,
                   prev_get_time>>

\* with _rate_limit_lock: (acquire)
RLAcquire(t) ==
    /\ rl_pc[t] = "enter"
    /\ rate_limit_lock = 0
    /\ rate_limit_lock' = t
    /\ rl_pc' = [rl_pc EXCEPT ![t] = "locked"]
    /\ UNCHANGED <<clock, last_fetch_time, rl_wake, rl_sleeps, permits,
                   env_vars, cached_domains, stores, al_vars, call_vars,
                   prev_get_time>>

\* the test of line 191 on elapsed = now - _last_fetch_time
MayProceed(now, last) == now - last >= DRAIN_INTERVAL_SEC \/ last = 0

\* the sleep of line 195 taken inside the with block
RLCheck_SleepsWithLock(t) ==
    /\ rl_pc[t] = "locked"
    /\ IF MayProceed(clock, last_fetch_time)
       THEN /\ rl_pc' = [rl_pc EXCEPT ![t] = "stamp"]
            /\ UNCHANGED <<rate_limit_lock, rl_wake, rl_sleeps>>
       ELSE /\ rl_pc' = [rl_pc EXCEPT ![t] = "sleeping"]
            /\ UNCHANGED rate_limit_lock
            /\ rl_wake' = [rl_wake EXCEPT ![t] =
                             clock + (DRAIN_INTERVAL_SEC - (clock - last_fetch_time))]
            /\ rl_sleeps' = [rl_sleeps EXCEPT ![t] = @ + 1]
    /\ UNCHANGED <<clock, last_fetch_time, permits,
                   env_vars, cached_domains, stores, al_vars, call_vars,
                   prev_get_time>>

\* now = time.monotonic(); the test; on failure the lock is released and the
\* thread sleeps for DRAIN_INTERVAL_SEC - elapsed
RLCheck(t) ==
    /\ rl_pc[t] = "locked"
    /\ IF MayProceed(clock, last_fetch_time)
       THEN /\ rl_pc' = [rl_pc EXCEPT ![t] = "stamp"]
            /\ UNCHANGED <<rate_limit_lock, rl_wake, rl_sleeps>>
       ELSE /\ rl_pc' = [rl_pc EXCEPT ![t] = "sleeping"]
            /\ rate_limit_lock' = 0
            /\ rl_wake' = [rl_wake EXCEPT ![t] =
                             clock + (DRAIN_INTERVAL_SEC - (clock - last_fetch_time))]
            /\ rl_sleeps' = [rl_sleeps EXCEPT ![t] = @ + 1]
    /\ UNCHANGED <<clock, last_fetch_time, permits,
                   env_vars, cached_domains, stores, al_vars, call_vars,
                   prev_get_time>>

\* the return of line 193 leaving the lock held
RLStamp_KeepsLock(t) ==
    /\ rl_pc[t] = "stamp"
    /\ last_fetch_time' = clock
    /\ permits' = Append(permits, clock)
    /\ UNCHANGED rate_limit_lock
    /\ rl_pc' = [rl_pc EXCEPT ![t] = "returned"]
    /\ UNCHANGED <<clock, rl_wake, rl_sleeps, env_vars, cached_domains, stores,
                   al_vars, call_vars, prev_get_time>>

\* _last_fetch_time = time.monotonic(); return (the lock is released)
RLStamp(t) ==
    /\ rl_pc[t] = "stamp"
    /\ last_fetch_time' = clock
    /\ permits' = Append(permits, clock)
    /\ rate_limit_lock' = 0
    /\ rl_pc' = [rl_pc EXCEPT ![t] = "returned"]
    /\ UNCHANGED <<clock, rl_wake, rl_sleeps, env_vars, cached_domains, stores,
                   al_vars, call_vars, prev_get_time>>

\* time.sleep(sleep_time) returns; the loop starts over
RLWake(t) ==
    /\ rl_pc[t] = "sleeping"
    /\ clock >= rl_wake[t]
    /\ rl_pc' = [rl_pc EXCEPT ![t] = "enter"]
    /\ rl_wake' = [rl_wake EXCEPT ![t] = 0]
    /\ UNCHANGED <<clock, last_fetch_time, rate_limit_lock, rl_sleeps, permits,
                   env_vars, cached_domains, stores, al_vars, call_vars,
                   prev_get_time>>

\* ------------------------------------------------------------------- fetch
\* the call is over: its locals are gone, its result and its counts stay
Finish(res) ==
    /\ pc' = "done"
    /\ result' = res
    /\ current_url' = NoUrl
    /\ redirect_count' = 0
    /\ content_type' = {}
    /\ content_len' = 0
    /\ cur_checks' = {}

\* one _LOG.info call: its reason tag, its url field, and whether it carries
\* elapsed_sec
LogEvent(reason, u, elapsed) == [reason |-> reason, url |-> u, elapsed |-> elapsed]

\* what the try block of lines 308-389 logs for its outcome: the success
\* line, or the line of the except clause that catches the exception; no
\* clause catches a ValueError
AuditLog(res) ==
    IF res.kind = "text" THEN <<LogEvent("success", url, TRUE)>>
    ELSE IF res.kind \in {"FetchError", "AllowlistError", "URLBlockedError",
                          "ExtractionError"}
         THEN <<LogEvent("fetch_failed", url, TRUE)>>
    ELSE <<>>

\* is_allowed reaches _get_domains only past its host and scheme tests
ReachesGetDomains(u) ==
    NormalizeHost(u) # <<>> /\ UrlScheme(u) \in {S_http, S_https}

CacheAfterIsAllowed(u) ==
    IF ReachesGetDomains(u)
    THEN Cached(GetDomains(cached_domains, config.file, config.env))
    ELSE cached_domains

StoresAfterIsAllowed(u) ==
    IF ReachesGetDomains(u) /\ ~cached_domains.loaded THEN stores + 1 ELSE stores

\* fetch(u), lines 288-298: _validate_url, then allowlist.is_allowed
FetchCall(u) ==
    /\ pc = "idle"
    /\ \A t \in Threads : rl_pc[t] = "idle"
    /\ Len(permits) < MaxPermits
    /\ url' = u
    /\ IF ValidateUrl(u, allow_http) # Ok
       THEN /\ Finish(ValidateUrl(u, allow_http))
            /\ logs' = <<LogEvent("url_blocked", u, FALSE)>>
            /\ UNCHANGED <<cached_domains, stores>>
       ELSE /\ cached_domains' = CacheAfterIsAllowed(u)
            /\ stores' = StoresAfterIsAllowed(u)
            /\ IF ~IsAllowed(u, GetDomains(cached_domains, config.file, config.env))
               THEN /\ Finish(Err("AllowlistError", "URL not on allowlist"))
                    /\ logs' = <<LogEvent("allowlist_violation", u, FALSE)>>
               ELSE /\ pc' = "resolve"
                    /\ result' = NoResult
                    /\ UNCHANGED <<current_url, redirect_count, content_type,
                                   content_len, cur_checks, logs>>
    /\ UNCHANGED <<rl_vars, env_vars, prev_get_time, al_vars, dns_lookups,
                   rl_calls, gets, last_get, redirects, last_target, dispatched>>

\* the caller has the result; nothing of the call is kept
FetchReturn ==
    /\ pc = "done"
    /\ pc' = "idle"
    /\ url' = NoUrl
    /\ result' = NoResult
    /\ dns_lookups' = 0
    /\ rl_calls' = 0
    /\ gets' = 0
    /\ last_get' = NoGet
    /\ redirects' = 0
    /\ last_target' = NoTarget
    /\ logs' = <<>>
    /\ dispatched' = NoBody
    /\ prev_get_time' = IF gets > 0 THEN last_get.time ELSE prev_get_time
    /\ UNCHANGED <<rl_vars, env_vars, cached_domains, stores, al_vars,
                   current_url, redirect_count, content_type, content_len,
                   cur_checks>>

\* fetch taking its rate-limit slot before the initial resolution: a call
\* rejected there has stamped _last_fetch_time
FetchResolve_SlotFirst(answer) ==
    /\ pc = "resolve"
    /\ answer \in Resolutions(UrlHostname(url))
    /\ dns_lookups' = dns_lookups + 1
    /\ IF ResolveAndValidateHost(UrlHostname(url), answer) # Ok
       THEN /\ Finish(ResolveAndValidateHost(UrlHostname(url), answer))
            /\ last_fetch_time' = clock
            /\ UNCHANGED <<rl_pc, rl_sleeps, rl_calls>>
       ELSE /\ pc' = "rate_limit"
            /\ rl_pc' = [rl_pc EXCEPT ![Caller] = "enter"]
            /\ rl_sleeps' = [rl_sleeps EXCEPT ![Caller] = 0]
            /\ rl_calls' = rl_calls + 1
            /\ cur_checks' = {"validate", "allowlist", "resolve"}
            /\ UNCHANGED <<current_url, redirect_count, content_type,
                           content_len, result, last_fetch_time>>
    /\ UNCHANGED <<clock, rate_limit_lock, rl_wake, permits,
                   env_vars, prev_get_time, cached_domains, stores, al_vars,
                   url, gets, last_get, redirects, last_target, logs,
                   dispatched>>

\* lines 301-306: resolve the initial host, then enter _rate_limit
FetchResolve(answer) ==
    /\ pc = "resolve"
    /\ answer \in Resolutions(UrlHostname(url))
    /\ dns_lookups' = dns_lookups + 1
    /\ IF ResolveAndValidateHost(UrlHostname(url), answer) # Ok
       THEN /\ Finish(ResolveAndValidateHost(UrlHostname(url), answer))
            /\ UNCHANGED <<rl_pc, rl_sleeps, rl_calls>>
       ELSE /\ pc' = "rate_limit"
            /\ rl_pc' = [rl_pc EXCEPT ![Caller] = "enter"]
            /\ rl_sleeps' = [rl_sleeps EXCEPT ![Caller] = 0]
            /\ rl_calls' = rl_calls + 1
            /\ cur_checks' = {"validate", "allowlist", "resolve"}
            /\ UNCHANGED <<current_url, redirect_count, content_type,
                           content_len, result>>
    /\ UNCHANGED <<clock, last_fetch_time, rate_limit_lock, rl_wake, permits,
                   env_vars, prev_get_time, cached_domains, stores, al_vars,
                   url, gets, last_get, redirects, last_target, logs,
                   dispatched>>

\* _rate_limit returned: the client is created and _do_fetch starts
FetchStartDoFetch ==
    /\ pc = "rate_limit"
    /\ rl_pc[Caller] = "returned"
    /\ rl_pc' = [rl_pc EXCEPT ![Caller] = "idle"]
    /\ pc' = "do_fetch"
    /\ current_url' = url
    /\ redirect_count' = 0
    /\ UNCHANGED <<clock, last_fetch_time, rate_limit_lock, rl_wake, rl_sleeps,
                   permits, env_vars, prev_get_time, cached_domains, stores,
                   al_vars, url, content_type, content_len, result,
                   dns_lookups, rl_calls, gets, last_get, cur_checks,
                   redirects, last_target, logs, dispatched>>

\* client.stream("GET", current_url): the transport connects by itself
Get(conn) ==
    /\ pc = "do_fetch"
    /\ redirect_count <= MAX_REDIRECTS
    /\ conn \in ConnectOutcomes(UrlHostname(current_url))
    /\ gets' = gets + 1
    /\ last_get' = [url |-> current_url, connected |-> conn.ok,
                    internal |-> conn.ok /\ IsBlockedIp(conn.addr),
                    checks |-> cur_checks, time |-> clock]

\* a failed connection after which the loop of line 251 goes round again
DoFetchConnectFail_Retries ==
    /\ Get(ConnectFailed)
    /\ IF gets < MAX_REDIRECTS + 2
       THEN UNCHANGED <<pc, result, current_url, redirect_count, content_type,
                        content_len, cur_checks, logs>>
       ELSE /\ Finish(Err("FetchError", "Request failed"))
            /\ logs' = logs \o AuditLog(Err("FetchError", "Request failed"))
    /\ UNCHANGED <<rl_vars, env_vars, prev_get_time, cached_domains, stores,
                   al_vars, url, dns_lookups, rl_calls, redirects, last_target,
                   dispatched>>

\* the connection fails: httpx.RequestError, lines 372-380
DoFetchConnectFail ==
    /\ Get(ConnectFailed)
    /\ Finish(Err("FetchError", "Request failed"))
    /\ logs' = logs \o AuditLog(Err("FetchError", "Request failed"))
    /\ UNCHANGED <<rl_vars, env_vars, prev_get_time, cached_domains, stores,
                   al_vars, url, dns_lookups, rl_calls, redirects, last_target,
                   dispatched>>

\* the ceiling test of line 260 off by one
RedirectOutcome_OffByOne(location, answer) ==
    IF redirect_count + 1 > MAX_REDIRECTS + 1
    THEN Err("FetchError", "Too many redirects")
    ELSE IF location.kind = "absent"
         THEN Err("FetchError", "Redirect without Location header")
    ELSE ValidateRedirectTarget(UrlJoin(current_url, location), answer,
             GetDomains(cached_domains, config.file, config.env))

\* where a redirect response with Location `location` leads, lines 259-267,
\* when the resolver answers `answer` for the target's host
RedirectOutcome(location, answer) ==
    IF redirect_count + 1 > MAX_REDIRECTS
    THEN Err("FetchError", "Too many redirects")
    ELSE IF location.kind = "absent"
         THEN Err("FetchError", "Redirect without Location header")
    ELSE ValidateRedirectTarget(UrlJoin(current_url, location), answer,
             GetDomains(cached_domains, config.file, config.env))

\* whether the redirect gets as far as the getaddrinfo call
RedirectResolves(location) ==
    /\ redirect_count + 1 <= MAX_REDIRECTS
    /\ location.kind # "absent"
    /\ ~UrlParseFails(UrlJoin(current_url, location))
    /\ UrlHostname(UrlJoin(current_url, location)) # <<>>

\* whether it gets as far as allowlist.is_allowed
RedirectAsksAllowlist(location, answer) ==
    /\ RedirectResolves(location)
    /\ ResolveAndValidateHost(UrlHostname(UrlJoin(current_url, location)),
                              answer) = Ok

\* a 3xx response, lines 255-268
DoFetchRedirect(conn, location, answer) ==
    /\ conn.ok
    /\ Get(conn)
    /\ redirects' = redirects + 1
    /\ IF RedirectResolves(location)
       THEN /\ answer \in Resolutions(UrlHostname(UrlJoin(current_url, location)))
            /\ dns_lookups' = dns_lookups + 1
       ELSE /\ answer = GaiError
            /\ UNCHANGED dns_lookups
    /\ last_target' =
           IF redirect_count + 1 <= MAX_REDIRECTS /\ location.kind # "absent"
           THEN [present |-> TRUE, url |-> UrlJoin(current_url, location),
                 resolved |-> RedirectResolves(location), answer |-> answer]
           ELSE NoTarget
    /\ cached_domains' =
           IF RedirectAsksAllowlist(location, answer)
           THEN CacheAfterIsAllowed(UrlJoin(current_url, location))
           ELSE cached_domains
    /\ stores' =
           IF RedirectAsksAllowlist(location, answer)
           THEN StoresAfterIsAllowed(UrlJoin(current_url, location))
           ELSE stores
    /\ IF RedirectOutcome(location, answer) = Ok
       THEN /\ redirect_count' = redirect_count + 1
            /\ current_url' = UrlJoin(current_url, location)
            /\ cur_checks' = {"resolve", "allowlist"}
            /\ UNCHANGED <<pc, content_type, content_len, result, logs>>
       ELSE /\ Finish(RedirectOutcome(location, answer))
            /\ logs' = logs \o AuditLog(RedirectOutcome(location, answer))
    /\ UNCHANGED <<rl_vars, env_vars, prev_get_time, al_vars, url, rl_calls,
                   dispatched>>

\* a 4xx/5xx response: response.raise_for_status(), lines 270, 363-371
DoFetchStatusError(conn) ==
    /\ conn.ok
    /\ Get(conn)
    /\ Finish(Err("FetchError", "HTTP status"))
    /\ logs' = logs \o AuditLog(Err("FetchError", "HTTP status"))
    /\ UNCHANGED <<rl_vars, env_vars, prev_get_time, cached_domains, stores,
                   al_vars, url, dns_lookups, rl_calls, redirects, last_target,
                   dispatched>>

\* a 2xx response: the body is streamed, lines 272-278
DoFetchBody(conn, ctype, chunks) ==
    /\ conn.ok
    /\ Get(conn)
    /\ pc' = "dispatch"
    /\ content_type' = ctype
    /\ content_len' = StreamBody(0, chunks)
    /\ UNCHANGED <<rl_vars, env_vars, prev_get_time, cached_domains, stores,
                   al_vars, url, current_url, redirect_count, result,
                   dns_lookups, rl_calls, cur_checks, redirects, last_target,
                   logs, dispatched>>

\* whether fitz.open is called on the body: the PDF branch of line 339 is
\* reached past the blocked types, and _extract_text_pdf passes its size
\* test of line 200
PdfParserRuns(ctype, len) ==
    /\ ctype \cap BlockedContentTypes = {}
    /\ "application/pdf" \in ctype
    /\ ~(len > MAX_PDF_BYTES)

\* the dispatch with the PDF ceiling taken to be the general ceiling
DispatchOutcome_GeneralCeiling(ctype, len, extracted) ==
    IF ctype \cap BlockedContentTypes # {}
    THEN Err("FetchError", "Blocked content type")
    ELSE IF "application/pdf" \in ctype /\ len > MAX_RESPONSE_BYTES
         THEN Err("ExtractionError", "PDF exceeds maximum size")
    ELSE IF "application/pdf" \in ctype /\ extracted = "unreadable"
         THEN Err("ExtractionError", "PDF could not be read")
    ELSE IF ctype \cap {"application/pdf", "text/html", "text/plain",
                        "application/xhtml+xml"} = {}
         THEN Err("FetchError", "Unsupported content type")
    ELSE IF extracted # "text"
         THEN Err("ExtractionError", "No extractable text")
    ELSE [kind |-> "text", msg |-> ""]

\* lines 317-361 on what the extractor yields: "text", "empty" or, for a
\* PDF, "unreadable"
DispatchOutcome(ctype, len, extracted) ==
    IF ctype \cap BlockedContentTypes # {}
    THEN Err("FetchError", "Blocked content type")
    ELSE IF "application/pdf" \in ctype /\ len > MAX_PDF_BYTES
         THEN Err("ExtractionError", "PDF exceeds maximum size")
    ELSE IF "application/pdf" \in ctype /\ extracted = "unreadable"
         THEN Err("ExtractionError", "PDF could not be read")
    ELSE IF ctype \cap {"application/pdf", "text/html", "text/plain",
                        "application/xhtml+xml"} = {}
         THEN Err("FetchError", "Unsupported content type")
    ELSE IF extracted # "text"
         THEN Err("ExtractionError", "No extractable text")
    ELSE [kind |-> "text", msg |-> ""]

FetchDispatch(extracted) ==
    /\ pc = "dispatch"
    /\ extracted \in {"text", "empty", "unreadable"}
    /\ extracted = "unreadable" => "application/pdf" \in content_type
    /\ Finish(DispatchOutcome(content_type, content_len, extracted))
    /\ logs' = logs \o AuditLog(DispatchOutcome(content_type, content_len, extracted))
    /\ dispatched' = [present |-> TRUE, ctype |-> content_type,
                      len |-> content_len,
                      parsed |-> PdfParserRuns(content_type, content_len)]
    /\ UNCHANGED <<rl_vars, env_vars, prev_get_time, cached_domains, stores,
                   al_vars, url, dns_lookups, rl_calls, gets, last_get,
                   redirects, last_target>>

\* allowlist.reset_cache()
ResetCache ==
    /\ pc = "idle"
    /\ cached_domains.loaded
    /\ cached_domains' = NoCache
    /\ stores' = 0
    /\ al_fresh' = [t \in Threads |-> FALSE]
    /\ UNCHANGED <<rl_vars, env_vars, prev_get_time, call_vars, al_pc, al_url,
                   al_domains, al_result, last_call>>

\* ------------------------------------------------------------ specifications
\* the connections the transport may make for current_url, and the answers
\* the resolver may give for the target of a redirect
CurrentConnects ==
    IF pc = "do_fetch" THEN ConnectOutcomes(UrlHostname(current_url)) ELSE {}
RedirectAnswers(location) ==
    IF RedirectResolves(location)
    THEN Resolutions(UrlHostname(UrlJoin(current_url, location)))
    ELSE {GaiError}

RateLimitStep ==
    \E t \in Threads : RLAcquire(t) \/ RLCheck(t) \/ RLStamp(t) \/ RLWake(t)

\* one caller of fetch; the clock is followed across the caller's sleeps
Next ==
    \/ \E u \in Urls : FetchCall(u)
    \/ \E answer \in Resolutions(UrlHostname(url)) : FetchResolve(answer)
    \/ FetchReturn
    \/ RateLimitStep
    \/ FetchStartDoFetch
    \/ DoFetchConnectFail
    \/ \E conn \in CurrentConnects : \E location \in Locations :
          \E answer \in RedirectAnswers(location) :
              DoFetchRedirect(conn, location, answer)
    \/ \E conn \in CurrentConnects : DoFetchStatusError(conn)
    \/ \E conn \in CurrentConnects : \E ctype \in ContentTypes :
          \E chunks \in ChunkSeqs : DoFetchBody(conn, ctype, chunks)
    \/ \E extracted \in {"text", "empty", "unreadable"} : FetchDispatch(extracted)
    \/ ResetCache
    \/ SleepTick

Spec == Init /\ [][Next]_vars

\* back-to-back calls for one allowlisted URL whose server redirects to a
\* path of its own and answers with a page; time passes while the caller
\* waits for the server
NextNet ==
    \/ FetchCall(U_arxiv)
    \/ FetchResolve(Addrs(<<S_ip_8_8_8_8>>))
    \/ FetchReturn
    \/ RateLimitStep
    \/ FetchStartDoFetch
    \/ DoFetchRedirect(Connected(S_ip_8_8_8_8), Relative(24),
                       Addrs(<<S_ip_8_8_8_8>>))
    \/ DoFetchBody(Connected(S_ip_8_8_8_8), {"text/html"}, <<1>>)
    \/ FetchDispatch("text")
    \/ NetTick
    \/ SleepTick

SpecNet == Init /\ [][NextNet]_vars

\* calls for one allowlisted URL against every behaviour of its server: it
\* redirects to itself, to another host and back, without Location, answers
\* with an error status or a page, or cannot be connected to
HopLocations ==
    {NoLocation, Relative(24), Absolute(U_arxiv), Absolute(U_example)}

NextHops ==
    \/ FetchCall(U_arxiv)
    \/ \E answer \in Resolutions(UrlHostname(url)) : FetchResolve(answer)
    \/ FetchReturn
    \/ RateLimitStep
    \/ SleepTick
    \/ FetchStartDoFetch
    \/ DoFetchConnectFail
    \/ \E conn \in CurrentConnects : \E location \in HopLocations :
          \E answer \in RedirectAnswers(location) :
              DoFetchRedirect(conn, location, answer)
    \/ \E conn \in CurrentConnects : DoFetchStatusError(conn)
    \/ \E conn \in CurrentConnects : DoFetchBody(conn, {"text/html"}, <<1>>)
    \/ \E extracted \in {"text", "empty"} : FetchDispatch(extracted)

\* the call keeps running: the resolver and the server answer or time out
\* (TIMEOUT_SEC), and the sleeps of the rate limiter end
SpecHops == Init /\ [][NextHops]_vars /\ WF_vars(NextHops)

\* concurrent direct callers of _rate_limit
NextRL ==
    \/ \E t \in Threads : RLCall(t)
    \/ RateLimitStep
    \/ Tick
    \/ SleepTick

SpecRL == InitRL /\ [][NextRL]_vars

\* the scheduler runs every thread that can take a step, and the clock
\* advances while a thread sleeps
FairRL ==
    /\ \A t \in Threads :
           /\ WF_vars(RLAcquire(t))
           /\ WF_vars(RLCheck(t))
           /\ WF_vars(RLStamp(t))
           /\ WF_vars(RLWake(t))
    /\ WF_vars(SleepTick)

SpecRLFair == SpecRL /\ FairRL

\* ------------------------------------------- concurrent callers of is_allowed
\* the URLs threads pass to is_allowed directly
ALUrls ==
    { U_example, Url(S_https, S_ip6_loop_br, 24) }

\* the contents the override file and the environment variable may take
\* while the process runs
AllConfigs ==
    Configs \cup { [file |-> File(<<S_not_arxiv_org>>), env |-> <<>>] }

\* is_allowed(u), lines 95-106: a call without host or with another scheme
\* returns False before _get_domains; every thread is one caller making one
\* call
ALCall(t, u) ==
    /\ pc = "idle"
    /\ al_pc[t] = "idle"
    /\ al_url' = [al_url EXCEPT ![t] = u]
    /\ al_fresh' = [al_fresh EXCEPT ![t] = TRUE]
    /\ IF ReachesGetDomains(u)
       THEN /\ al_pc' = [al_pc EXCEPT ![t] = "test"]
            /\ UNCHANGED <<al_result, last_call>>
       ELSE /\ al_pc' = [al_pc EXCEPT ![t] = "returned"]
            /\ al_result' = [al_result EXCEPT ![t] = "False"]
            /\ last_call' = [url |-> u,
                             domains |-> GetDomains(cached_domains, config.file,
                                                    config.env),
                             result |-> "False"]
    /\ UNCHANGED <<rl_vars, env_vars, cached_domains, stores, call_vars,
                   prev_get_time, al_domains>>

\* _get_domains, line 85: if _cached_domains is None
ALTest(t) ==
    /\ al_pc[t] = "test"
    /\ al_pc' = [al_pc EXCEPT ![t] =
                    IF cached_domains.loaded THEN "ret" ELSE "load"]
    /\ UNCHANGED <<rl_vars, env_vars, cached_domains, stores, call_vars,
                   prev_get_time, al_url, al_domains, al_result, al_fresh,
                   last_call>>

\* line 86, right-hand side: _load_domains() reads the file and the variable
ALLoad(t) ==
    /\ al_pc[t] = "load"
    /\ al_domains' = [al_domains EXCEPT ![t] =
                         LoadDomains(config.file, config.env)]
    /\ al_pc' = [al_pc EXCEPT ![t] = "store"]
    /\ UNCHANGED <<rl_vars, env_vars, cached_domains, stores, call_vars,
                   prev_get_time, al_url, al_result, al_fresh, last_call>>

\* line 86, the assignment to _cached_domains
ALStore(t) ==
    /\ al_pc[t] = "store"
    /\ cached_domains' = Cached(al_domains[t])
    /\ stores' = stores + 1
    /\ al_pc' = [al_pc EXCEPT ![t] = "ret"]
    /\ al_domains' = [al_domains EXCEPT ![t] = <<>>]
    /\ UNCHANGED <<rl_vars, env_vars, call_vars, prev_get_time, al_url,
                   al_result, al_fresh, last_call>>

\* line 87 reads _cached_domains again, lines 109-112 match the host against
\* it; iterating over None raises TypeError
ALResult(u) ==
    IF ~cached_domains.loaded THEN "TypeError"
    ELSE IF IsAllowed(u, cached_domains.domains) THEN "True"
    ELSE "False"

ALReturn(t) ==
    /\ al_pc[t] = "ret"
    /\ al_pc' = [al_pc EXCEPT ![t] = "returned"]
    /\ al_result' = [al_result EXCEPT ![t] = ALResult(al_url[t])]
    /\ last_call' = [url |-> al_url[t], domains |-> cached_domains.domains,
                     result |-> ALResult(al_url[t])]
    /\ UNCHANGED <<rl_vars, env_vars, cached_domains, stores, call_vars,
                   prev_get_time, al_url, al_domains, al_fresh>>

\* the override file or the environment variable is changed
ConfigChange(c) ==
    /\ pc = "idle"
    /\ c \in AllConfigs
    /\ c # config
    /\ config' = c
    /\ UNCHANGED <<rl_vars, allow_http, cached_domains, stores, al_vars,
                   call_vars, prev_get_time>>

NextAL ==
    \/ \E t \in Threads : \E u \in ALUrls : ALCall(t, u)
    \/ \E t \in Threads : ALTest(t) \/ ALLoad(t) \/ ALStore(t) \/ ALReturn(t)
    \/ ResetCache
    \/ \E c \in AllConfigs : ConfigChange(c)

\* STEENBOK_ALLOW_HTTP is not read by the allowlist
InitAL == Start(1) /\ ~allow_http

SpecAL == InitAL /\ [][NextAL]_vars

\* ------------------------------------------------------------------ claims
\* whether a host matches a pattern of the loaded allowlist
HostOnAllowlist(u) ==
    \E i \in DOMAIN cached_domains.domains :
        fnmatch(NormalizeHost(u), cached_domains.domains[i])

\* the call made no network operation of any kind
NoNetwork == dns_lookups = 0 /\ rl_calls = 0 /\ gets = 0

\* C1: every URL to which a GET is issued (the caller's URL and every redirect
\* target followed) passes _validate_url and allowlist.is_allowed and went
\* through _resolve_and_validate_host before the GET.
C1_EveryGetPassedAllChecks ==
    gets > 0 =>
        /\ ValidateUrl(last_get.url, allow_http) = Ok
        /\ IsAllowed(last_get.url, GetDomains(cached_domains, config.file, config.env))
        /\ "resolve" \in last_get.checks

\* C2: no GET of a call, on the initial hop or a redirect hop, connects to an
\* internal address, whatever the resolver answers from one lookup to the next.
C2_NoConnectionToInternalAddress ==
    gets > 0 => ~last_get.internal

\* C3: any two calls of _rate_limit that returned were permitted at readings
\* of the clock at least DRAIN_INTERVAL_SEC apart, for every reading of the
\* clock at process start.
C3_PermitsSpacedByInterval ==
    \A i, j \in DOMAIN permits :
        i < j => permits[j] - permits[i] >= DRAIN_INTERVAL_SEC

\* C4: a call follows at most MAX_REDIRECTS redirects: a body handed back by
\* _do_fetch is that of the response after the last redirect, at most the
\* 4th response, and a 4th redirect response ends the call with FetchError
\* "Too many redirects".
C4_RedirectCeiling ==
    /\ redirect_count <= MAX_REDIRECTS
    /\ redirects <= MAX_REDIRECTS + 1
    /\ gets <= MAX_REDIRECTS + 1
    /\ redirects = MAX_REDIRECTS + 1 =>
           pc = "done" /\ result = Err("FetchError", "Too many redirects")
    /\ (pc = "dispatch" \/ result.kind = "text") =>
           redirects <= MAX_REDIRECTS /\ gets = redirects + 1

\* a chain of exactly three redirects, and the 4th response's body returned
C4_Witness ==
    pc = "dispatch" /\ redirects = MAX_REDIRECTS /\ gets = MAX_REDIRECTS + 1

\* C5: the body returned by _do_fetch is at most MAX_RESPONSE_BYTES long, for
\* every sequence of chunk sizes.
C5_BodyWithinCeiling ==
    pc = "dispatch" => content_len <= MAX_RESPONSE_BYTES

\* a redirect, within the ceiling, whose target has a host
RedirectWithHost ==
    /\ last_target.present
    /\ ~UrlParseFails(last_target.url)
    /\ UrlHostname(last_target.url) # <<>>

\* C6: a redirect whose target's host is not on the allowlist makes fetch fail
\* with AllowlistError, whatever the host resolves to and whether it resolves.
C6_RedirectOffAllowlistIsAllowlistError ==
    (RedirectWithHost /\ cached_domains.loaded /\ ~HostOnAllowlist(last_target.url)) =>
        pc = "done" /\ result.kind = "AllowlistError"

\* C7: a redirect whose target resolves to at least one internal address ends
\* the call with URLBlockedError: no GET to the target (every GET of the call
\* was answered by a redirect), no further hop, no text returned.
C7_RedirectToInternalAborts ==
    (last_target.resolved /\ last_target.answer.ok
     /\ \E i \in DOMAIN last_target.answer.addrs :
            IsBlockedIp(last_target.answer.addrs[i])) =>
        /\ pc = "done"
        /\ result = Err("URLBlockedError", "Resolves to blocked IP")
        /\ gets = redirects

\* the target resolves to a public and to a private address
C7_Witness ==
    /\ last_target.resolved
    /\ last_target.answer = Addrs(<<S_ip_8_8_8_8, S_ip_10_0_0_1>>)
    /\ pc = "done"

\* C8: a URL whose scheme is file, data, javascript, vbscript or ftp, of any
\* length and with any host, fails with URLBlockedError "Blocked scheme"
\* before any DNS lookup, rate-limiter call or HTTP request.
C8_BlockedSchemeBeforeNetwork ==
    (pc # "idle" /\ ~UrlParseFails(url) /\ UrlScheme(url) \in BLOCKED_SCHEMES) =>
        /\ pc = "done"
        /\ result = Err("URLBlockedError", "Blocked scheme")
        /\ NoNetwork

\* an over-long FILE:// URL on an allowlisted host was rejected
C8_Witness ==
    pc = "done" /\ url = Url(S_FILE, S_arxiv_org, 2049)

\* the syntactic host of a URL is a blocked hostname or a blocked literal IP
SyntacticHostBlocked(u) ==
    /\ ~UrlParseFails(u)
    /\ UrlHostname(u) # <<>>
    /\ \/ UrlHostname(u) \in BLOCKED_HOSTNAMES
       \/ IsBlockedIp(UrlHostname(u))

\* C9 as stated: every http(s) URL whose syntactic host is blocked fails with
\* URLBlockedError "Blocked host", under every allowlist, with no DNS lookup
\* and no HTTP request.
C9_BlockedHostDiagnostic ==
    (pc # "idle" /\ UrlScheme(url) \in {S_http, S_https} /\ SyntacticHostBlocked(url)) =>
        /\ pc = "done"
        /\ result = Err("URLBlockedError", "Blocked host")
        /\ NoNetwork

\* C9 amended: an https URL, or an http URL when STEENBOK_ALLOW_HTTP is "1",
\* whose syntactic host is blocked fails with URLBlockedError "Blocked host";
\* an http URL without the opt-in fails with URLBlockedError "HTTP not
\* allowed"; in both cases never AllowlistError, under every allowlist, and
\* with no DNS lookup and no HTTP request.
C9_BlockedHostAfterHttpRule ==
    (pc # "idle" /\ UrlScheme(url) \in {S_http, S_https} /\ SyntacticHostBlocked(url)) =>
        /\ pc = "done"
        /\ result = IF UrlScheme(url) = S_http /\ ~allow_http
                    THEN Err("URLBlockedError", "HTTP not allowed")
                    ELSE Err("URLBlockedError", "Blocked host")
        /\ NoNetwork

\* https://LOCALHOST:80 was rejected although the override file allows "*"
C9_Witness ==
    /\ pc = "done"
    /\ url = Url(S_https, S_LOCALHOST_80, 24)
    /\ config.file.exists
    /\ result.msg = "Blocked host"

\* C10: a URL that passes _validate_url and whose host matches no loaded
\* pattern fails with AllowlistError, with no DNS lookup and no HTTP request.
C10_AllowlistViolationBeforeNetwork ==
    (pc # "idle" /\ ValidateUrl(url, allow_http) = Ok /\ ~HostOnAllowlist(url)) =>
        /\ pc = "done"
        /\ result = Err("AllowlistError", "URL not on allowlist")
        /\ NoNetwork

\* https://example.com was refused under the default allowlist
C10_Witness ==
    /\ pc = "done"
    /\ url = U_example
    /\ result.kind = "AllowlistError"
    /\ cached_domains.loaded

\* C11: every fetch call that has ended has emitted exactly one audit event
\* carrying the call's URL, and when the call failed the event is a failure
\* event carrying a reason tag and the elapsed time, whichever stage failed
C11_OneAuditEventPerCall ==
    pc = "done" =>
        /\ Len(logs) = 1
        /\ logs[1].url = url
        /\ result.kind # "text" =>
               /\ logs[1].reason \in {"url_blocked", "allowlist_violation",
                                      "fetch_failed"}
               /\ logs[1].elapsed

\* C12: every GET of a call is issued at least DRAIN_INTERVAL_SEC after the
\* latest GET of the call that ran just before it
C12_GetsOfSuccessiveCallsSpaced ==
    (gets > 0 /\ prev_get_time >= 0) =>
        last_get.time - prev_get_time >= DRAIN_INTERVAL_SEC

\* C13: between process start (or a reset_cache call) and the next
\* reset_cache call a loaded list is assigned to _cached_domains at most once
C13_LoadedAtMostOncePerReset == stores <= 1

\* C14: two is_allowed calls for the same URL with no reset_cache call
\* between them (both began after the latest reset) return the same result,
\* whatever happens to the override file and the environment meanwhile
C14_IsAllowedDeterministicBetweenResets ==
    \A t1, t2 \in Threads :
        (/\ al_pc[t1] = "returned" /\ al_pc[t2] = "returned"
         /\ al_fresh[t1] /\ al_fresh[t2]
         /\ al_url[t1] = al_url[t2])
        => al_result[t1] = al_result[t2]

\* what C15 gives as the condition for is_allowed(u) to be true over the
\* loaded patterns
SchemeHostAndPatternMatch(u, domains) ==
    /\ ~UrlParseFails(u)
    /\ UrlScheme(u) \in {S_http, S_https}
    /\ UrlHostname(u) # <<>>
    /\ \E i \in DOMAIN domains : fnmatch(UrlHostname(u), domains[i])

\* C15: is_allowed(url) returns true if and only if the scheme is http or
\* https, the URL has a non-empty host, and the lowercased, port-stripped
\* host matches at least one loaded pattern
C15_IsAllowedIffSchemeHostPattern ==
    last_call.result # "none" =>
        (last_call.result = "True"
            <=> SchemeHostAndPatternMatch(last_call.url, last_call.domains))

\* C16: whatever the override file and the environment variable contain,
\* every list _load_domains produced starts with the default patterns, and
\* every URL allowed under the defaults alone is allowed under it
ExtendsDefaults(domains) ==
    /\ Len(domains) >= Len(DEFAULT_ALLOWED)
    /\ SubSeq(domains, 1, Len(DEFAULT_ALLOWED)) = DEFAULT_ALLOWED
    /\ \A u \in Urls \cup ALUrls :
           IsAllowed(u, DEFAULT_ALLOWED) => IsAllowed(u, domains)

C17_PdfCeilingBeforeParse ==
    (dispatched.present /\ dispatched.ctype = {"application/pdf"}) =>
        IF dispatched.len > MAX_PDF_BYTES
        THEN /\ pc = "done"
             /\ result = Err("ExtractionError", "PDF exceeds maximum size")
             /\ ~dispatched.parsed
        ELSE dispatched.parsed

C17_Witness ==
    /\ dispatched.present
    /\ dispatched.ctype = {"application/pdf"}
    /\ dispatched.len = MAX_PDF_BYTES + 1
    /\ result.kind = "ExtractionError"

\* C18: a caller that sleeps does not hold _rate_limit_lock; the lock is
\* held only by a caller between its acquisition and the end of its
\* timestamp check or update
C18_NoSleepWhileHoldingLock ==
    /\ \A t \in Threads : rl_pc[t] = "sleeping" => rate_limit_lock # t
    /\ rate_limit_lock # 0 => rl_pc[rate_limit_lock] \in {"locked", "stamp"}

\* while one caller sleeps, another holds the lock for its own check
C18_Witness ==
    \E t, s \in Threads :
        /\ rl_pc[t] = "sleeping"
        /\ s # t
        /\ rate_limit_lock = s
        /\ rl_pc[s] = "locked"

\* C19: under fair scheduling and an advancing clock, every call of
\* _rate_limit that has started eventually returns
C19_EveryCallReturns ==
    \A t \in Threads : (t \in InRateLimit) ~> (rl_pc[t] = "returned")

\* a call returned after sleeping twice: another caller took the slot it
\* had waited for
C19_Witness ==
    \E t \in Threads : rl_pc[t] = "returned" /\ rl_sleeps[t] >= 2

C21_RejectedCallSkipsRateLimiter ==
    /\ []((pc = "done" /\ gets = 0) =>
            /\ result.kind \in {"URLBlockedError", "AllowlistError"}
            /\ rl_calls = 0
            /\ \A t \in Threads : rl_pc[t] = "idle")
    /\ [][(pc \in {"idle", "resolve"} /\ pc' \in {"resolve", "done"}) =>
             UNCHANGED rl_vars]_vars

\* a call rejected at the initial resolution less than DRAIN_INTERVAL_SEC
\* after an earlier call took a slot: the stamp is still the earlier call's
C21_Witness ==
    /\ pc = "done"
    /\ gets = 0
    /\ dns_lookups = 1
    /\ result.kind = "URLBlockedError"
    /\ permits # <<>>
    /\ last_fetch_time = permits[Len(permits)]
    /\ clock - last_fetch_time < DRAIN_INTERVAL_SEC

\* C22: while STEENBOK_ALLOW_HTTP is not "1", no GET goes to a URL of
\* scheme http, be it the caller's URL or a redirect target
C22_NoPlainHttpGetWithoutOptIn ==
    (gets > 0 /\ ~allow_http) => UrlScheme(last_get.url) # S_http
====
